---- MODULE Spec2Model ----
(***************************************************************************)
(* X Wrapped: the streaming report orchestrator and its HTTP handler.      *)
(*                                                                         *)
(* Two pipelines are modelled, selected by `variant`:                      *)
(*   "index"   src/api/index.py          (agentic analysis + parse)        *)
(*   "monthly" src/api/wrapped/stream.py (12 monthly analyses + final)     *)
(*                                                                         *)
(* Text is a sequence of characters.  A formatted message (an f-string) is *)
(* the sequence of its pieces: literal strings and interpolated values.    *)
(* The emoji that prefix the literal messages of the source are left out   *)
(* (the module is ASCII); nothing in the code reads them.                  *)
(***************************************************************************)
EXTENDS Integers, Sequences, FiniteSets, TLC

(***************************************************************************)
(* Bounds of the model (the remote collaborator and the client are the     *)
(* environment; these bound what they do during one request).              *)
(***************************************************************************)
\* what the remote client sends during one request: the chunks it delivers
\* (over all its streams), plus one for a final sample() response with text
MaxRemoteItems == 2

(***************************************************************************)
(* Text helpers                                                            *)
(***************************************************************************)
\* "".join(parts)
RECURSIVE Join(_)
Join(parts) == IF parts = <<>> THEN <<>> ELSE Head(parts) \o Join(Tail(parts))

Whitespace == {" ", "\n"}

\* s.strip() is empty
StripIsEmpty(s) == \A i \in 1..Len(s) : s[i] \in Whitespace

\* s.replace(old, "") for a one-character old
RemoveChar(s, old) == SelectSeq(s, LAMBDA c : c # old)

\* s.replace(old, new) for one-character old and new
ReplaceChar(s, old, new) == [i \in 1..Len(s) |-> IF s[i] = old THEN new ELSE s[i]]

Lower == <<"a","b","c","d","e","f","g","h","i","j","k","l","m",
           "n","o","p","q","r","s","t","u","v","w","x","y","z">>
Upper == <<"A","B","C","D","E","F","G","H","I","J","K","L","M",
           "N","O","P","Q","R","S","T","U","V","W","X","Y","Z">>

IsLower(c) == \E k \in 1..Len(Lower) : Lower[k] = c
IsUpper(c) == \E k \in 1..Len(Upper) : Upper[k] = c
IsCased(c) == IsLower(c) \/ IsUpper(c)
ToUpper(c) == IF IsLower(c) THEN Upper[CHOOSE k \in 1..Len(Lower) : Lower[k] = c] ELSE c
ToLower(c) == IF IsUpper(c) THEN Lower[CHOOSE k \in 1..Len(Upper) : Upper[k] = c] ELSE c

\* str.title(): a cased character is upper-cased when it starts a run of cased
\* characters and lower-cased otherwise
Title(s) ==
  [i \in 1..Len(s) |->
     IF IsCased(s[i])
     THEN IF i = 1 \/ ~IsCased(s[i-1]) THEN ToUpper(s[i]) ELSE ToLower(s[i])
     ELSE s[i]]

(***************************************************************************)
(* TOOL_MESSAGES and get_tool_message (index.py)                           *)
(***************************************************************************)
x_keyword_search == <<"x","_","k","e","y","w","o","r","d","_","s","e","a","r","c","h">>
x_semantic_search == <<"x","_","s","e","m","a","n","t","i","c","_","s","e","a","r","c","h">>
x_user_search == <<"x","_","u","s","e","r","_","s","e","a","r","c","h">>
x_thread_fetch == <<"x","_","t","h","r","e","a","d","_","f","e","t","c","h">>
code_execution == <<"c","o","d","e","_","e","x","e","c","u","t","i","o","n">>
view_x_video == <<"v","i","e","w","_","x","_","v","i","d","e","o">>
view_image == <<"v","i","e","w","_","i","m","a","g","e">>
web_search == <<"w","e","b","_","s","e","a","r","c","h">>
browse_page == <<"b","r","o","w","s","e","_","p","a","g","e">>
\* a tool name the table does not list
foo_bar == <<"f","o","o","_","b","a","r">>

ListedTools ==
  { x_keyword_search, x_semantic_search, x_user_search, x_thread_fetch,
    code_execution, view_x_video, view_image, web_search, browse_page }

TOOL_MESSAGES ==
  [t \in ListedTools |->
     CASE t = x_keyword_search ->
            << <<"Diving into your posts...">>,
               <<"Scrolling through your timeline...">>,
               <<"Finding your hidden gems...">>,
               <<"Uncovering your best moments...">> >>
       [] t = x_semantic_search ->
            << <<"Understanding your vibes...">>,
               <<"Reading between the lines...">>,
               <<"Finding posts that hit different...">> >>
       [] t = x_user_search ->
            << <<"Looking up your profile...">>, <<"Finding your account...">> >>
       [] t = x_thread_fetch ->
            << <<"Pulling up your threads...">>, <<"Reading your stories...">> >>
       [] t = code_execution ->
            << <<"Crunching the numbers...">>,
               <<"Calculating your stats...">>,
               <<"Running the math...">>,
               <<"Analyzing your data...">> >>
       [] t = view_x_video ->
            << <<"Watching your videos...">>, <<"Reviewing your clips...">> >>
       [] t = view_image ->
            << <<"Checking out your pics...">>, <<"Admiring your photos...">> >>
       [] t = web_search ->
            << <<"Searching the web...">>, <<"Finding more context...">> >>
       [] t = browse_page ->
            << <<"Reading more details...">>, <<"Digging deeper...">> >>]

\* [f"{tool_name.replace('_', ' ').title()}..."]
DefaultMessages(tool_name) == << <<Title(ReplaceChar(tool_name, "_", " ")), "...">> >>

\* TOOL_MESSAGES.get(tool_name, [...])
MessagesFor(tool_name) ==
  IF tool_name \in ListedTools THEN TOOL_MESSAGES[tool_name] ELSE DefaultMessages(tool_name)

\* counts.get(tool_name, 0)
CountOf(counts, tool_name) ==
  IF tool_name \in DOMAIN counts THEN counts[tool_name] ELSE 0

\* counts[tool_name] = n
SetCount(counts, tool_name, n) ==
  [t \in (DOMAIN counts) \cup {tool_name} |-> IF t = tool_name THEN n ELSE counts[t]]

\* get_tool_message without the rotation: always the first message
ToolMessageFirst(counts, tool_name) == MessagesFor(tool_name)[1]

\* the message get_tool_message returns
ToolMessage(counts, tool_name) ==
  MessagesFor(tool_name)[(CountOf(counts, tool_name) % Len(MessagesFor(tool_name))) + 1]

\* the counters get_tool_message leaves
ToolCounts(counts, tool_name) ==
  SetCount(counts, tool_name, CountOf(counts, tool_name) + 1)

\* the counters left as they are: no reset when a request starts
KeptCounts(counts) == counts

\* tool_call_counts.clear()
ClearedCounts(counts) == [t \in {} |-> 0]

(***************************************************************************)
(* Events and wire records                                                 *)
(***************************************************************************)
\* Progress with the steps still to go in the place of the step reached
ProgressRemaining(message, step, total) ==
  [type |-> "progress", message |-> message, step |-> total - step, total |-> total]

Progress(message, step, total) ==
  [type |-> "progress", message |-> message, step |-> step, total |-> total]

AnalysisChunk(content) == [type |-> "analysis_chunk", content |-> content]

Complete(data) == [type |-> "complete", data |-> data]

Error(error) == [type |-> "error", error |-> error]

\* f"data: {json}\n\n"
Sse(json) == <<"data: ", json, "\n\n">>

MissingKeyMessage == <<"XAI_API_KEY", " environment variable is not set">>

NoAnalysisMessage == <<"No analysis data was generated. Please try again.">>

\* status line and headers, written by end_headers()
ResponseHead(status, ctype) == [kind |-> "head", status |-> status, ctype |-> ctype]

\* a write of body bytes
Data(bytes) == [kind |-> "data", bytes |-> bytes]

\* json.dumps({"error": ...})
ErrorBody(error) == [error |-> error]

(***************************************************************************)
(* WrappedResponse (index.py): the declared fields                         *)
(***************************************************************************)
WrappedResponseFields ==
  { "personality", "vibe", "themes", "voice", "content_mix", "highlights",
    "greatest_hits", "year_story", "evolution", "surprising_facts",
    "hot_take_of_year", "roast", "if_they_were", "power_move", "one_liner" }

PersonalityArchetypeFields == {"archetype", "description", "traits", "spirit_emoji"}

VibeAnalysisFields ==
  { "positive_percentage", "neutral_percentage", "negative_percentage",
    "overall_vibe", "vibe_description" }

VoiceAnalysisFields ==
  { "style_summary", "vocabulary_level", "tone", "signature_phrases",
    "emoji_style", "post_length_style" }

ContentMixFields == {"categories", "primary_mode", "engagement_style"}

EvolutionArcFields ==
  {"early_year_vibe", "mid_year_shift", "late_year_energy", "transformation_summary"}

\* datetime.now().year
current_year == 2025

\* the fallback report as it was before the insight fields were added
FallbackReportWithoutInsights(username) ==
  [ personality |->
      [ archetype |-> <<"The Storyteller">>,
        description |-> <<"Based on the content found, this user shares their perspective on X in their own unique way.">>,
        traits |-> << <<"Expressive">>, <<"Engaged">>, <<"Authentic">> >>,
        spirit_emoji |-> <<"sparkles">> ],
    vibe |->
      [ positive_percentage |-> 40,
        neutral_percentage |-> 40,
        negative_percentage |-> 20,
        overall_vibe |-> <<"Balanced">>,
        vibe_description |-> <<"A mix of perspectives and moods throughout the year.">> ],
    themes |-> <<>>,
    voice |->
      [ style_summary |-> <<"Unable to fully characterize writing style from available content.">>,
        vocabulary_level |-> <<"Conversational">>,
        tone |-> <<"Authentic">>,
        signature_phrases |-> <<>>,
        emoji_style |-> <<"Moderate">>,
        post_length_style |-> <<"Mixed">> ],
    content_mix |->
      [ categories |-> <<>>,
        primary_mode |-> <<"Original thinker">>,
        engagement_style |-> <<"Active participant">> ],
    highlights |-> <<>>,
    greatest_hits |-> <<>>,
    year_story |-> <<"@", username, "'s ", current_year, " on X was a journey of authentic expression. ...">> ]

\* the hand-built report of the except branch of the parse step
FallbackReport(username) ==
  [ personality |->
      [ archetype |-> <<"The Storyteller">>,
        description |-> <<"Based on the content found, this user shares their perspective on X in their own unique way.">>,
        traits |-> << <<"Expressive">>, <<"Engaged">>, <<"Authentic">> >>,
        spirit_emoji |-> <<"sparkles">> ],
    vibe |->
      [ positive_percentage |-> 40,
        neutral_percentage |-> 40,
        negative_percentage |-> 20,
        overall_vibe |-> <<"Balanced">>,
        vibe_description |-> <<"A mix of perspectives and moods throughout the year.">> ],
    themes |-> <<>>,
    voice |->
      [ style_summary |-> <<"Unable to fully characterize writing style from available content.">>,
        vocabulary_level |-> <<"Conversational">>,
        tone |-> <<"Authentic">>,
        signature_phrases |-> <<>>,
        emoji_style |-> <<"Moderate">>,
        post_length_style |-> <<"Mixed">> ],
    content_mix |->
      [ categories |-> <<>>,
        primary_mode |-> <<"Original thinker">>,
        engagement_style |-> <<"Active participant">> ],
    highlights |-> <<>>,
    greatest_hits |-> <<>>,
    year_story |-> <<"@", username, "'s ", current_year, " on X was a journey of authentic expression. ...">>,
    evolution |->
      [ early_year_vibe |-> <<"Started the year finding their footing on the platform.">>,
        mid_year_shift |-> <<"Evolved their voice and explored new topics.">>,
        late_year_energy |-> <<"Ended the year with a clearer sense of their X identity.">>,
        transformation_summary |-> <<"A year of growth and authentic expression.">> ],
    surprising_facts |-> <<>>,
    hot_take_of_year |-> <<"Their boldest opinions kept followers engaged throughout the year.">>,
    roast |-> <<"@", username, " never met a post button they didn't want to click.">>,
    if_they_were |-> <<"If @", username, " was a coffee order, they'd be whatever's most interesting on the menu.">>,
    power_move |-> <<"Showing up authentically, one post at a time.">>,
    one_liner |-> <<"@", username, ": Proof that everyone has a story worth sharing.">> ]

\* wrapped.model_dump() of a validated WrappedResponse: the required fields as
\* the remote model gave them (here: story), the others at their declared defaults
ParsedReport(story) ==
  [ personality |->
      [ archetype |-> <<"The Thread Weaver">>,
        description |-> <<"d">>,
        traits |-> <<>>,
        spirit_emoji |-> <<"sparkles">> ],
    vibe |->
      [ positive_percentage |-> 33,
        neutral_percentage |-> 34,
        negative_percentage |-> 33,
        overall_vibe |-> <<"Balanced">>,
        vibe_description |-> <<>> ],
    themes |-> <<>>,
    voice |->
      [ style_summary |-> <<"s">>,
        vocabulary_level |-> <<"v">>,
        tone |-> <<"t">>,
        signature_phrases |-> <<>>,
        emoji_style |-> <<"Moderate emoji user">>,
        post_length_style |-> <<"Mixed">> ],
    content_mix |->
      [ categories |-> <<>>,
        primary_mode |-> <<"Original thinker">>,
        engagement_style |-> <<>> ],
    highlights |-> <<>>,
    greatest_hits |-> <<>>,
    year_story |-> story,
    evolution |->
      [ early_year_vibe |-> <<"e">>,
        mid_year_shift |-> <<"m">>,
        late_year_energy |-> <<"l">>,
        transformation_summary |-> <<"t">> ],
    surprising_facts |-> <<>>,
    hot_take_of_year |-> <<>>,
    roast |-> <<>>,
    if_they_were |-> <<>>,
    power_move |-> <<>>,
    one_liner |-> <<>> ]

(***************************************************************************)
(* The environment: request bodies, remote chunks, remote failures         *)
(***************************************************************************)
\* request bodies: no bytes, bytes that are not JSON, or a JSON object
EmptyBody == [raw |-> "empty"]
MalformedBody == [raw |-> "malformed"]
ObjectBody(data) == [raw |-> "object", data |-> data]
NoFields == [k \in {} |-> <<>>]

RawUsernames == { <<>>, <<"@">>, <<"a">>, <<"@","a">>, <<"a","@","b">> }

Bodies ==
  {EmptyBody, MalformedBody, ObjectBody(NoFields)}
    \cup {ObjectBody([username |-> u]) : u \in RawUsernames}

\* the tool calls a chunk may carry: none, or two (of two tools, of one)
ToolCallLists ==
  { <<>>, <<foo_bar, x_user_search>>, <<x_user_search, x_user_search>> }

\* text deltas of a chunk ("" when the chunk carries no text)
Deltas == { <<>>, <<" ">>, <<"f","o","o">>, <<"b","a","r">> }

\* stream.py: the text of a chunk of a month's stream
MonthDeltas == { <<"a">> }

\* stream.py: the text of a month's sample() response
MonthText == <<"s">>

\* the text  {"a":1}
JsonObjectText == <<"{", "\"", "a", "\"", ":", "1", "}">>

\* stream.py: the text deltas of the final analysis stream
FinalDeltas == { <<>>, <<"a">>, <<"{">>, <<"}">>, JsonObjectText }

\* the text  a{"a":1}a : the object with prose on both sides
ProseJsonText == <<"a">> \o JsonObjectText \o <<"a">>

\* stream.py: the text of the final sample() response, when it has one
FinalTexts == { <<"a">>, <<"}">>, JsonObjectText, ProseJsonText }

\* the message of an exception the remote client raises
Failures == {"timeout"}

\* what the module-level tool_call_counts holds when a request starts
\* (empty in a fresh process, or what earlier requests left)
LeftoverCounts ==
  { [t \in {} |-> 0],
    [t \in {x_user_search, foo_bar} |-> IF t = foo_bar THEN 2 ELSE 5] }

(***************************************************************************)
(* State                                                                   *)
(***************************************************************************)
VARIABLES
  variant,            \* "index" or "monthly": the pipeline serving the request
  body,               \* the request body
  hasKey,             \* os.getenv("XAI_API_KEY") is set
  connected,          \* the client still reads the response
  hpc,                \* position of handler.do_POST
  gpc,                \* position of generate_wrapped_streaming
  username,           \* do_POST's username, the generator's argument
  exc,                \* the exception do_POST's except clause caught
  out,                \* the chunk the generator yielded, not yet written
  wire,               \* the writes the sink accepted, in order
  lostWrites,         \* the writes that raised (the client was gone), in order
  flushed,            \* how many of them were flushed
  events,             \* the JSON objects the generator yielded, in order
  log,                \* what the server printed
  tool_call_counts,   \* index.py's module-level counters
  analysis_content,   \* the text deltas collected from the analysis stream
  raw_analysis,       \* "".join(analysis_content) once the stream ended
  wrapped_data,       \* the report
  cur,                \* the chunk being processed
  ti,                 \* index of the next tool call of cur
  month,              \* stream.py: the loop variable
  month_content,      \* stream.py: the text deltas of the month's stream
  monthly_summaries,  \* stream.py: the summaries collected
  final_analysis,     \* stream.py: analysis_chat.sample()
  calls,              \* the remote calls made, in order, with their outcome
  served,             \* the earlier requests of this process: how each ended
  peer                \* a request another thread of this process is serving

vars ==
  << variant, body, hasKey, connected, hpc, gpc, username, exc, out, wire, lostWrites,
     flushed, events, log, tool_call_counts, analysis_content, raw_analysis,
     wrapped_data, cur, ti, month, month_content, monthly_summaries,
     final_analysis, calls, served, peer >>

\* the variables of the generator's frame
gvars ==
  << tool_call_counts, analysis_content, raw_analysis, wrapped_data, cur, ti,
     month, month_content, monthly_summaries, final_analysis >>

None == [none |-> TRUE]

NoChunk == [tool_calls |-> <<>>, content |-> <<>>]

\* no other thread is serving a request
NoPeer == [pc |-> "absent", done |-> 0, notices |-> <<>>]

Init ==
  /\ variant \in {"index", "monthly"}
  /\ body \in Bodies
  /\ hasKey \in BOOLEAN
  /\ connected = TRUE
  /\ hpc = "recv"
  /\ gpc = "start"
  /\ username = <<>>
  /\ exc = None
  /\ out = None
  /\ wire = <<>>
  /\ lostWrites = <<>>
  /\ flushed = 0
  /\ events = <<>>
  /\ log = <<>>
  /\ tool_call_counts \in (IF variant = "index" THEN LeftoverCounts ELSE {[t \in {} |-> 0]})
  /\ analysis_content = <<>>
  /\ raw_analysis = <<>>
  /\ wrapped_data = None
  /\ cur = NoChunk
  /\ ti = 1
  /\ month = 1
  /\ month_content = <<>>
  /\ monthly_summaries = <<>>
  /\ final_analysis = None
  /\ calls = <<>>
  /\ served = <<>>
  /\ peer = NoPeer

(***************************************************************************)
(* History read from `calls`                                               *)
(***************************************************************************)
\* the chunks the remote client delivered so far
DeliveredChunks == SelectSeq(calls, LAMBDA c : c.op = "next" /\ c.ok /\ ~c.end)

\* the sample() responses of the final analysis that carried text
TextSamples ==
  SelectSeq(calls, LAMBDA c : c.op = "sample" /\ c.ok /\ c.response.content \in FinalTexts)

RemoteItems == Len(DeliveredChunks) + Len(TextSamples)

\* the chunks the remote client may deliver next: index.py reads a chunk's
\* tool calls and text; stream.py reads its text only
NextChunks(lists, deltas) ==
  IF RemoteItems >= MaxRemoteItems THEN {}
  ELSE { [tool_calls |-> tc, content |-> d] : tc \in lists, d \in deltas }

\* a sample() response (stream.py reads content, citations and tool_calls)
Response(content, citations) ==
  [content |-> content, citations |-> citations, tool_calls |-> <<>>]

\* the responses sample() may return next
NextResponses(texts) ==
  {Response(<<>>, <<>>)}
    \cup (IF RemoteItems >= MaxRemoteItems THEN {}
          ELSE {Response(t, <<"https://x.com/i/status/1">>) : t \in texts})

Call(op, ok) == [op |-> op, ok |-> ok, end |-> FALSE]

(***************************************************************************)
(* handler.do_POST                                                         *)
(***************************************************************************)
\* data.get("username", "")
GetUsername(data) == IF "username" \in DOMAIN data THEN data.username ELSE <<>>

\* the decoded request body: index.py reads an empty body as {}; stream.py
\* hands it to json.loads, which raises
LoadsBody(v, b) ==
  CASE b.raw = "object" -> [ok |-> TRUE, data |-> b.data]
    [] b.raw = "empty" /\ v = "index" -> [ok |-> TRUE, data |-> NoFields]
    [] OTHER -> [ok |-> FALSE, data |-> NoFields]

\* data.get("username", "") handed on as it was sent
SentUsername(data) == GetUsername(data)

\* data.get("username", "").replace("@", "")
NormalizedUsername(data) == RemoveChar(GetUsername(data), "@")

\* do_POST without the check of the username
HRecvUnchecked ==
  /\ hpc = "recv"
  /\ UNCHANGED body
  /\ LET loaded == LoadsBody(variant, body) IN
       IF ~loaded.ok
       THEN /\ hpc' = "except_head"
            /\ exc' = [src |-> "body", msg |-> "JSONDecodeError"]
            /\ UNCHANGED username
       ELSE /\ username' = NormalizedUsername(loaded.data)
            /\ hpc' = "accept"
            /\ UNCHANGED exc
  /\ UNCHANGED << lostWrites, served, peer, variant, hasKey, connected, gpc, out, wire, flushed, events, log, calls >>
  /\ UNCHANGED gvars

\* do_POST up to the first write: read the body, decode it, take the username
HRecv ==
  /\ hpc = "recv"
  /\ UNCHANGED body
  /\ LET loaded == LoadsBody(variant, body) IN
       IF ~loaded.ok
       THEN /\ hpc' = "except_head"
            /\ exc' = [src |-> "body", msg |-> "JSONDecodeError"]
            /\ UNCHANGED username
       ELSE /\ username' = NormalizedUsername(loaded.data)
            /\ hpc' = IF username' = <<>> THEN "reject_head" ELSE "accept"
            /\ UNCHANGED exc
  /\ UNCHANGED << lostWrites, served, peer, variant, hasKey, connected, gpc, out, wire, flushed, events, log, calls >>
  /\ UNCHANGED gvars

\* a write of `bytes` to wfile: the sink takes it, or the client is gone and
\* the write raises
SinkWrite(bytes, okpc, failpc) ==
  \/ /\ connected
     /\ wire' = Append(wire, bytes)
     /\ hpc' = okpc
     /\ UNCHANGED << connected, exc, lostWrites >>
  \/ /\ connected' = FALSE
     /\ lostWrites' = Append(lostWrites, bytes)
     /\ hpc' = failpc
     /\ exc' = [src |-> "write", msg |-> "BrokenPipeError"]
     /\ UNCHANGED wire

\* not username: send_response(400) ... end_headers()
HRejectHead ==
  /\ hpc = "reject_head"
  /\ SinkWrite(ResponseHead(400, "application/json"), "reject_body", "except_head")
  /\ UNCHANGED << served, peer, variant, body, hasKey, gpc, username, out, flushed, events, log, calls >>
  /\ UNCHANGED gvars

\* wfile.write(json.dumps({"error": "Username is required"})); return
HRejectBody ==
  /\ hpc = "reject_body"
  /\ SinkWrite(Data(ErrorBody("Username is required")), "done", "except_head")
  /\ UNCHANGED << served, peer, variant, body, hasKey, gpc, username, out, flushed, events, log, calls >>
  /\ UNCHANGED gvars

\* send_response(200) ... end_headers(), then generate_wrapped_streaming(username)
HAccept ==
  /\ hpc = "accept"
  /\ SinkWrite(ResponseHead(200, "text/event-stream"), "next", "except_head")
  /\ UNCHANGED << served, peer, variant, body, hasKey, gpc, username, out, flushed, events, log, calls >>
  /\ UNCHANGED gvars

\* what the handler writes for a chunk: index.py's generator yields the SSE
\* record; stream.py's yields the JSON and the handler frames it
Framed(v, chunk) == IF v = "index" THEN chunk ELSE Sse(chunk)

\* the generator is closed at the yield it is suspended at: index.py catches
\* GeneratorExit inside its try and prints; the yield of the except clause
\* (gpc "end") is outside the try
ClosedLog(v, g, l) ==
  IF v = "index" /\ g # "end" THEN Append(l, "client disconnected") ELSE l

\* self.wfile.write(chunk) of the streaming loop
HWrite ==
  /\ hpc = "write"
  /\ \/ /\ connected
        /\ wire' = Append(wire, Data(Framed(variant, out)))
        /\ hpc' = "flush"
        /\ UNCHANGED << connected, exc, gpc, log, lostWrites >>
     \/ /\ connected' = FALSE
        /\ lostWrites' = Append(lostWrites, Data(Framed(variant, out)))
        /\ exc' = [src |-> "write", msg |-> "BrokenPipeError"]
        /\ hpc' = "except_head"
        /\ gpc' = "closed"
        /\ log' = ClosedLog(variant, gpc, log)
        /\ UNCHANGED wire
  /\ out' = None
  /\ UNCHANGED << served, peer, variant, body, hasKey, username, flushed, events, calls >>
  /\ UNCHANGED gvars

\* the streaming loop without its flush
HFlushSkipped ==
  /\ hpc = "flush"
  /\ hpc' = "next"
  /\ UNCHANGED << lostWrites, served, peer, variant, body, hasKey, connected, gpc, username, exc, out, wire,
                  events, log, calls, flushed >>
  /\ UNCHANGED gvars

\* self.wfile.flush()
HFlush ==
  /\ hpc = "flush"
  /\ flushed' = Len(wire)
  /\ hpc' = "next"
  /\ UNCHANGED << lostWrites, served, peer, variant, body, hasKey, connected, gpc, username, exc, out, wire,
                  events, log, calls >>
  /\ UNCHANGED gvars

\* except Exception: send_response(500) ... end_headers()
HExceptHead ==
  /\ hpc = "except_head"
  /\ \/ /\ connected
        /\ wire' = Append(wire, ResponseHead(500, "application/json"))
        /\ hpc' = "except_body"
        /\ UNCHANGED << connected, lostWrites >>
     \/ /\ connected' = FALSE
        /\ lostWrites' = Append(lostWrites, ResponseHead(500, "application/json"))
        /\ hpc' = "crashed"
        /\ UNCHANGED wire
  /\ UNCHANGED << served, peer, variant, body, hasKey, gpc, username, exc, out, flushed, events, log, calls >>
  /\ UNCHANGED gvars

\* except Exception: wfile.write(json.dumps({"error": str(e)}))
HExceptBody ==
  /\ hpc = "except_body"
  /\ \/ /\ connected
        /\ wire' = Append(wire, Data(ErrorBody(exc.msg)))
        /\ hpc' = "done"
        /\ UNCHANGED << connected, lostWrites >>
     \/ /\ connected' = FALSE
        /\ lostWrites' = Append(lostWrites, Data(ErrorBody(exc.msg)))
        /\ hpc' = "crashed"
        /\ UNCHANGED wire
  /\ UNCHANGED << served, peer, variant, body, hasKey, gpc, username, exc, out, flushed, events, log, calls >>
  /\ UNCHANGED gvars

(***************************************************************************)
(* generate_wrapped_streaming, index.py                                    *)
(* The generator runs while the handler waits in next(); it runs up to its *)
(* next yield, return or raise.  Each remote call is a step of its own.    *)
(***************************************************************************)
\* yield: the chunk goes to the handler's loop body
Yield(ev, nextg) ==
  /\ out' = (IF variant = "index" THEN Sse(ev) ELSE ev)
  /\ events' = Append(events, ev)
  /\ hpc' = "write"
  /\ gpc' = nextg

\* index.py, except Exception as e: print, yield the error event
CaughtError(e) ==
  /\ log' = Append(log, "error generating wrapped")
  /\ Yield(Error(<<e>>), "end")

\* index.py lines 182-191: the credential check and the first progress event
IStart ==
  /\ variant = "index" /\ hpc = "next" /\ gpc = "start"
  /\ IF ~hasKey
     THEN Yield(Error(MissingKeyMessage), "ret")
     ELSE Yield(Progress(<<"Firing up Grok for @", username, "...">>, 1, 4), "create")
  /\ UNCHANGED << lostWrites, served, peer, variant, body, hasKey, connected, username, exc, wire, flushed, log, calls >>
  /\ UNCHANGED gvars

\* index.py lines 198-312: client.chat.create, tool_call_counts.clear(),
\* append the prompt, open the stream
ICreate ==
  /\ variant = "index" /\ hpc = "next" /\ gpc = "create"
  /\ \/ /\ calls' = calls \o
                     << [op |-> "create", ok |-> TRUE, end |-> FALSE,
                         allowed_x_handles |-> <<username>>],
                        Call("stream", TRUE) >>
        /\ tool_call_counts' = ClearedCounts(tool_call_counts)
        /\ gpc' = "stream"
        /\ UNCHANGED << hpc, out, events, log >>
     \/ \E e \in Failures :
          /\ calls' = Append(calls, [Call("create", FALSE) EXCEPT !.end = TRUE])
          /\ CaughtError(e)
          /\ UNCHANGED tool_call_counts
  /\ UNCHANGED << lostWrites, served, peer, variant, body, hasKey, connected, username, exc, wire, flushed >>
  /\ UNCHANGED << analysis_content, raw_analysis, wrapped_data, cur, ti,
                  month, month_content, monthly_summaries, final_analysis >>

\* IStreamNext without the return after the empty-output error
IStreamNextNoReturn ==
  /\ variant = "index" /\ hpc = "next" /\ gpc = "stream"
  /\ \/ \E c \in NextChunks(ToolCallLists, Deltas) :
          /\ calls' = Append(calls, [op |-> "next", ok |-> TRUE, end |-> FALSE, chunk |-> c])
          /\ cur' = c
          /\ ti' = 1
          /\ gpc' = "chunk"
          /\ UNCHANGED << hpc, out, events, log, raw_analysis >>
     \/ /\ calls' = Append(calls, [op |-> "next", ok |-> TRUE, end |-> TRUE])
        /\ raw_analysis' = Join(analysis_content)
        /\ IF StripIsEmpty(raw_analysis')
           THEN Yield(Error(NoAnalysisMessage), "create2")
           ELSE Yield(Progress(<<"Generating your wrapped...">>, 2, 4), "create2")
        /\ UNCHANGED << log, cur, ti >>
     \/ \E e \in Failures :
          /\ calls' = Append(calls, [op |-> "next", ok |-> FALSE, end |-> TRUE])
          /\ CaughtError(e)
          /\ UNCHANGED << raw_analysis, cur, ti >>
  /\ UNCHANGED << lostWrites, served, peer, variant, body, hasKey, connected, username, exc, wire, flushed >>
  /\ UNCHANGED << tool_call_counts, analysis_content, wrapped_data,
                  month, month_content, monthly_summaries, final_analysis >>

\* index.py lines 312, 324-334: the next chunk of agentic_chat.stream(); at
\* the end of the stream the text is joined and checked
IStreamNext ==
  /\ variant = "index" /\ hpc = "next" /\ gpc = "stream"
  /\ \/ \E c \in NextChunks(ToolCallLists, Deltas) :
          /\ calls' = Append(calls, [op |-> "next", ok |-> TRUE, end |-> FALSE, chunk |-> c])
          /\ cur' = c
          /\ ti' = 1
          /\ gpc' = "chunk"
          /\ UNCHANGED << hpc, out, events, log, raw_analysis >>
     \/ /\ calls' = Append(calls, [op |-> "next", ok |-> TRUE, end |-> TRUE])
        /\ raw_analysis' = Join(analysis_content)
        /\ IF StripIsEmpty(raw_analysis')
           THEN Yield(Error(NoAnalysisMessage), "ret")
           ELSE Yield(Progress(<<"Generating your wrapped...">>, 2, 4), "create2")
        /\ UNCHANGED << log, cur, ti >>
     \/ \E e \in Failures :
          /\ calls' = Append(calls, [op |-> "next", ok |-> FALSE, end |-> TRUE])
          /\ CaughtError(e)
          /\ UNCHANGED << raw_analysis, cur, ti >>
  /\ UNCHANGED << lostWrites, served, peer, variant, body, hasKey, connected, username, exc, wire, flushed >>
  /\ UNCHANGED << tool_call_counts, analysis_content, wrapped_data,
                  month, month_content, monthly_summaries, final_analysis >>

(***************************************************************************)
(* stream.py: JSON recovery                                                *)
(***************************************************************************)
\* position of the first / last occurrence of c in s, 0 when there is none
FirstIndex(s, c) ==
  IF \E i \in 1..Len(s) : s[i] = c
  THEN CHOOSE i \in 1..Len(s) : s[i] = c /\ \A j \in 1..(i-1) : s[j] # c
  ELSE 0
LastIndex(s, c) ==
  IF \E i \in 1..Len(s) : s[i] = c
  THEN CHOOSE i \in 1..Len(s) : s[i] = c /\ \A j \in (i+1)..Len(s) : s[j] # c
  ELSE 0

\* re.match in place of re.search: the text has to begin with the "{"
JsonMatchAnchored(text) ==
  LET j == LastIndex(text, "}")
  IN IF Len(text) > 0 /\ text[1] = "{" /\ j > 1
     THEN [found |-> TRUE, group |-> SubSeq(text, 1, j)]
     ELSE [found |-> FALSE, group |-> <<>>]

\* re.search(r'\{[\s\S]*\}', text): the leftmost match starts at the first
\* "{" and, the star being greedy, ends at the last "}" after it
JsonMatch(text) ==
  LET i == FirstIndex(text, "{")
      j == LastIndex(text, "}")
  IN IF i > 0 /\ j > i
     THEN [found |-> TRUE, group |-> SubSeq(text, i, j)]
     ELSE [found |-> FALSE, group |-> <<>>]

JsonWhitespace == {" ", "\n", "\t", "\r"}
Digits == <<"0","1","2","3","4","5","6","7","8","9">>
IsDigit(c) == \E k \in 1..Len(Digits) : Digits[k] = c
DigitValue(c) == (CHOOSE k \in 1..Len(Digits) : Digits[k] = c) - 1

\* the first position from i on whose character is not in S (Len(s)+1 at the end)
RECURSIVE Skip(_, _, _)
Skip(s, i, S) == IF i <= Len(s) /\ s[i] \in S THEN Skip(s, i + 1, S) ELSE i

\* the first position from i on whose character is c (Len(s)+1 when none)
RECURSIVE Find(_, _, _)
Find(s, i, c) == IF i <= Len(s) /\ s[i] # c THEN Find(s, i + 1, c) ELSE i

RECURSIVE NumberValue(_)
NumberValue(ds) ==
  IF ds = <<>> THEN 0 ELSE 10 * NumberValue(SubSeq(ds, 1, Len(ds) - 1)) + DigitValue(ds[Len(ds)])

JsonError == [ok |-> FALSE, value |-> <<>>]

\* json.loads(s) for the texts of this model: an object with no member, or
\* with one member whose name is a string (no escapes) and whose value is a
\* number or a string; white space is allowed between the tokens.  The
\* result is the list of the (name, value) pairs.  Anything else raises
\* JSONDecodeError.
JsonLoads(s) ==
  LET open == Skip(s, 1, JsonWhitespace) IN
  IF open > Len(s) \/ s[open] # "{" THEN JsonError
  ELSE
  LET k0 == Skip(s, open + 1, JsonWhitespace) IN
  IF k0 > Len(s) THEN JsonError
  ELSE IF s[k0] = "}"
  THEN IF Skip(s, k0 + 1, JsonWhitespace) > Len(s) THEN [ok |-> TRUE, value |-> <<>>] ELSE JsonError
  ELSE IF s[k0] # "\"" THEN JsonError
  ELSE
  LET k1 == Find(s, k0 + 1, "\"")
      colon == Skip(s, k1 + 1, JsonWhitespace)
      v0 == Skip(s, colon + 1, JsonWhitespace)
  IN
  IF k1 > Len(s) \/ colon > Len(s) \/ v0 > Len(s) THEN JsonError
  ELSE IF s[colon] # ":" THEN JsonError
  ELSE
  LET name == SubSeq(s, k0 + 1, k1 - 1)
      isString == s[v0] = "\""
      v1 == IF isString THEN Find(s, v0 + 1, "\"") + 1
            ELSE Skip(s, v0, {Digits[k] : k \in 1..Len(Digits)})
      close == Skip(s, v1, JsonWhitespace)
      digits == SubSeq(s, v0, v1 - 1)
  IN
  IF v1 = v0 \/ v1 > Len(s) + 1 \/ close > Len(s) THEN JsonError
  ELSE IF ~isString /\ Len(digits) > 1 /\ digits[1] = "0" THEN JsonError
  ELSE IF s[close] # "}" \/ Skip(s, close + 1, JsonWhitespace) <= Len(s) THEN JsonError
  ELSE [ok |-> TRUE,
        value |-> << << name, IF isString THEN SubSeq(s, v0 + 1, v1 - 2)
                                  ELSE NumberValue(digits) >> >>]

\* d[key] = value on a dict held as the list of its (key, value) pairs
DictSet(d, key, value) ==
  IF \E i \in 1..Len(d) : d[i][1] = key
  THEN [i \in 1..Len(d) |-> IF d[i][1] = key THEN <<key, value>> ELSE d[i]]
  ELSE Append(d, <<key, value>>)

\* d has the key
DictHas(d, key) == \E i \in 1..Len(d) : d[i][1] = key

\* d[key]
DictGet(d, key) == d[CHOOSE i \in 1..Len(d) : d[i][1] = key][2]

KeyMonthlySummaries == <<"m","o","n","t","h","l","y","_","s","u","m","m","a","r","i","e","s">>
KeyCitations == <<"c","i","t","a","t","i","o","n","s">>
KeyAnalysis == <<"a","n","a","l","y","s","i","s">>

\* RecoveredReport with a fallback object that leaves the citations out
RecoveredReportWithoutCitations(full_analysis_text, summaries, citations) ==
  LET json_match == JsonMatch(full_analysis_text)
      loaded == JsonLoads(json_match.group)
      fallback == << <<KeyAnalysis, full_analysis_text>>,
                     <<KeyMonthlySummaries, summaries>> >>
  IN IF json_match.found /\ loaded.ok
     THEN DictSet(DictSet(loaded.value, KeyMonthlySummaries, summaries), KeyCitations, citations)
     ELSE fallback

\* stream.py lines 150-175: the report built from the analysis text
RecoveredReport(full_analysis_text, summaries, citations) ==
  LET json_match == JsonMatch(full_analysis_text)
      loaded == JsonLoads(json_match.group)
      fallback == << <<KeyAnalysis, full_analysis_text>>,
                     <<KeyMonthlySummaries, summaries>>,
                     <<KeyCitations, citations>> >>
  IN IF json_match.found /\ loaded.ok
     THEN DictSet(DictSet(loaded.value, KeyMonthlySummaries, summaries), KeyCitations, citations)
     ELSE fallback

(***************************************************************************)
(* generate_wrapped_streaming, stream.py                                   *)
(***************************************************************************)
MonthNames ==
  << "January", "February", "March", "April", "May", "June", "July",
     "August", "September", "October", "November", "December" >>

IsLeap(year) == (year % 4 = 0 /\ year % 100 # 0) \/ year % 400 = 0

\* calendar.monthrange(year, month)[1]
LastDay(m, year) ==
  IF m = 2 THEN (IF IsLeap(year) THEN 29 ELSE 28)
  ELSE IF m \in {4, 6, 9, 11} THEN 30 ELSE 31

\* f"{month:02d}"
TwoDigits(n) == <<n \div 10, n % 10>>

\* get_month_range(month, year)
get_month_range(m, year) ==
  << <<year, "-", TwoDigits(m), "-01">>, <<year, "-", TwoDigits(m), "-", LastDay(m, year)>> >>

\* the entry appended to monthly_summaries
MonthSummary(m, content, final_response) ==
  [ month |-> m,
    month_name |-> MonthNames[m],
    start_date |-> get_month_range(m, current_year)[1],
    end_date |-> get_month_range(m, current_year)[2],
    raw_content |-> Join(content),
    summary |-> final_response.content,
    citations |-> final_response.citations,
    tool_calls |-> Len(final_response.tool_calls) ]

\* stream.py has no try: an exception leaves the generator and reaches
\* do_POST's except clause
Raise(e) ==
  /\ gpc' = "raised"
  /\ hpc' = "except_head"
  /\ exc' = [src |-> "generator", msg |-> e]

\* stream.py lines 23-35: the credential check and the first progress event
MStart ==
  /\ variant = "monthly" /\ hpc = "next" /\ gpc = "start"
  /\ IF ~hasKey
     THEN Yield([error |-> MissingKeyMessage], "ret")
     ELSE Yield(Progress(<<"Starting analysis for @", username, "...">>, 0, 13), "month")
  /\ UNCHANGED << lostWrites, served, peer, variant, body, hasKey, connected, username, exc, wire, flushed, log, calls >>
  /\ UNCHANGED gvars

\* MMonth with a loop over range(1, 12)
MMonthOfEleven ==
  /\ variant = "monthly" /\ hpc = "next" /\ gpc = "month"
  /\ IF month <= 11
     THEN Yield([type |-> "progress", message |-> <<"Analyzing ", MonthNames[month], "...">>,
                 step |-> month, total |-> 13, month |-> MonthNames[month]], "mcreate")
     ELSE Yield(Progress(<<"Analyzing all data and generating wrapped report...">>, 13, 13),
                "acreate")
  /\ UNCHANGED << lostWrites, served, peer, variant, body, hasKey, connected, username, exc, wire, flushed, log, calls >>
  /\ UNCHANGED gvars

\* stream.py lines 37-47 and 79-84: the head of the month loop yields the
\* month's progress event; after the twelfth month the loop ends and the
\* progress event of the final analysis is yielded
MMonth ==
  /\ variant = "monthly" /\ hpc = "next" /\ gpc = "month"
  /\ IF month <= 12
     THEN Yield([type |-> "progress", message |-> <<"Analyzing ", MonthNames[month], "...">>,
                 step |-> month, total |-> 13, month |-> MonthNames[month]], "mcreate")
     ELSE Yield(Progress(<<"Analyzing all data and generating wrapped report...">>, 13, 13),
                "acreate")
  /\ UNCHANGED << lostWrites, served, peer, variant, body, hasKey, connected, username, exc, wire, flushed, log, calls >>
  /\ UNCHANGED gvars

\* stream.py lines 50-60: the month's chat, its query, its stream
MCreate ==
  /\ variant = "monthly" /\ hpc = "next" /\ gpc = "mcreate"
  /\ \/ /\ calls' = calls \o <<Call("create", TRUE), Call("stream", TRUE)>>
        /\ month_content' = <<>>
        /\ gpc' = "mstream"
        /\ UNCHANGED << hpc, exc >>
     \/ \E e \in Failures :
          /\ calls' = Append(calls, [Call("create", FALSE) EXCEPT !.end = TRUE])
          /\ Raise(e)
          /\ UNCHANGED month_content
  /\ UNCHANGED << lostWrites, served, peer, variant, body, hasKey, connected, username, out, wire, flushed, events, log >>
  /\ UNCHANGED << tool_call_counts, analysis_content, raw_analysis, wrapped_data, cur, ti,
                  month, monthly_summaries, final_analysis >>

\* stream.py lines 60-62: the next chunk of the month's stream
MStreamNext ==
  /\ variant = "monthly" /\ hpc = "next" /\ gpc = "mstream"
  /\ \/ \E c \in NextChunks({<<>>}, MonthDeltas) :
          /\ calls' = Append(calls, [op |-> "next", ok |-> TRUE, end |-> FALSE, chunk |-> c])
          /\ month_content' = IF c.content # <<>> THEN Append(month_content, c.content)
                              ELSE month_content
          /\ UNCHANGED << hpc, gpc, exc >>
     \/ /\ calls' = Append(calls, [op |-> "next", ok |-> TRUE, end |-> TRUE])
        /\ gpc' = "msample"
        /\ UNCHANGED << hpc, exc, month_content >>
     \/ \E e \in Failures :
          /\ calls' = Append(calls, [op |-> "next", ok |-> FALSE, end |-> TRUE])
          /\ Raise(e)
          /\ UNCHANGED month_content
  /\ UNCHANGED << lostWrites, served, peer, variant, body, hasKey, connected, username, out, wire, flushed, events, log >>
  /\ UNCHANGED << tool_call_counts, analysis_content, raw_analysis, wrapped_data, cur, ti,
                  month, monthly_summaries, final_analysis >>

\* stream.py lines 65-76: chat.sample() and the month's summary
MSample ==
  /\ variant = "monthly" /\ hpc = "next" /\ gpc = "msample"
  /\ \/ \E r \in {Response(MonthText, <<"https://x.com/i/status/1">>)} :
          /\ calls' = Append(calls, [op |-> "sample", ok |-> TRUE, end |-> FALSE, response |-> r])
          /\ monthly_summaries' = Append(monthly_summaries, MonthSummary(month, month_content, r))
          /\ month' = month + 1
          /\ gpc' = "month"
          /\ UNCHANGED << hpc, exc >>
     \/ \E e \in Failures :
          /\ calls' = Append(calls, [Call("sample", FALSE) EXCEPT !.end = TRUE])
          /\ Raise(e)
          /\ UNCHANGED << monthly_summaries, month >>
  /\ UNCHANGED << lostWrites, served, peer, variant, body, hasKey, connected, username, out, wire, flushed, events, log >>
  /\ UNCHANGED << tool_call_counts, analysis_content, raw_analysis, wrapped_data, cur, ti,
                  month_content, final_analysis >>

\* the final prompt: the monthly summaries between its fixed parts
AnalysisPrompt(user, summaries) ==
  << "Analyze all the posts and data collected for @", user, " across 12 months in ",
     current_year, "Monthly Data Collected:", summaries >>

\* stream.py lines 86-141: the chat of the final analysis, its prompt, its stream
MFinalCreate ==
  /\ variant = "monthly" /\ hpc = "next" /\ gpc = "acreate"
  /\ \/ /\ calls' = calls \o
                     << Call("create", TRUE),
                        [op |-> "stream", ok |-> TRUE, end |-> FALSE,
                         prompt |-> AnalysisPrompt(username, monthly_summaries)] >>
        /\ gpc' = "astream"
        /\ UNCHANGED << hpc, exc >>
     \/ \E e \in Failures :
          /\ calls' = Append(calls, [Call("create", FALSE) EXCEPT !.end = TRUE])
          /\ Raise(e)
  /\ UNCHANGED << lostWrites, served, peer, variant, body, hasKey, connected, username, out, wire, flushed, events, log >>
  /\ UNCHANGED gvars

\* stream.py lines 141-145: the next chunk of the final stream; its text is yielded
MFinalStreamNext ==
  /\ variant = "monthly" /\ hpc = "next" /\ gpc = "astream"
  /\ \/ \E c \in NextChunks({<<>>}, FinalDeltas) :
          /\ calls' = Append(calls, [op |-> "next", ok |-> TRUE, end |-> FALSE, chunk |-> c])
          /\ IF c.content # <<>>
             THEN /\ analysis_content' = Append(analysis_content, c.content)
                  /\ Yield(AnalysisChunk(c.content), "astream")
             ELSE UNCHANGED << analysis_content, hpc, gpc, out, events >>
          /\ UNCHANGED exc
     \/ /\ calls' = Append(calls, [op |-> "next", ok |-> TRUE, end |-> TRUE])
        /\ gpc' = "asample"
        /\ UNCHANGED << hpc, exc, out, events, analysis_content >>
     \/ \E e \in Failures :
          /\ calls' = Append(calls, [op |-> "next", ok |-> FALSE, end |-> TRUE])
          /\ Raise(e)
          /\ UNCHANGED << out, events, analysis_content >>
  /\ UNCHANGED << lostWrites, served, peer, variant, body, hasKey, connected, username, wire, flushed, log >>
  /\ UNCHANGED << tool_call_counts, raw_analysis, wrapped_data, cur, ti,
                  month, month_content, monthly_summaries, final_analysis >>

\* stream.py lines 147-175: analysis_chat.sample(), the text handed to the
\* JSON extraction, the report, the complete event
MFinalSample ==
  /\ variant = "monthly" /\ hpc = "next" /\ gpc = "asample"
  /\ \/ \E r \in NextResponses(FinalTexts) :
          /\ calls' = Append(calls, [op |-> "sample", ok |-> TRUE, end |-> FALSE, response |-> r])
          /\ final_analysis' = r
          /\ raw_analysis' = Join(analysis_content) \o r.content
          /\ wrapped_data' = RecoveredReport(raw_analysis', monthly_summaries, r.citations)
          /\ Yield(Complete(wrapped_data'), "end")
          /\ UNCHANGED exc
     \/ \E e \in Failures :
          /\ calls' = Append(calls, [Call("sample", FALSE) EXCEPT !.end = TRUE])
          /\ Raise(e)
          /\ UNCHANGED << out, events, final_analysis, raw_analysis, wrapped_data >>
  /\ UNCHANGED << lostWrites, served, peer, variant, body, hasKey, connected, username, wire, flushed, log >>
  /\ UNCHANGED << tool_call_counts, analysis_content, cur, ti,
                  month, month_content, monthly_summaries >>

\* IChunk with a single notice for a chunk, whatever tool calls it carries
IChunkOneNotice ==
  /\ variant = "index" /\ hpc = "next" /\ gpc = "chunk"
  /\ IF ti <= Len(cur.tool_calls)
     THEN /\ Yield(Progress(ToolMessage(tool_call_counts, cur.tool_calls[ti]), 1, 4), "chunk")
          /\ tool_call_counts' = ToolCounts(tool_call_counts, cur.tool_calls[ti])
          /\ ti' = Len(cur.tool_calls) + 1
          /\ UNCHANGED analysis_content
     ELSE IF cur.content # <<>>
     THEN /\ analysis_content' = Append(analysis_content, cur.content)
          /\ Yield(AnalysisChunk(cur.content), "stream")
          /\ UNCHANGED << tool_call_counts, ti >>
     ELSE /\ gpc' = "stream"
          /\ UNCHANGED << hpc, out, events, tool_call_counts, ti, analysis_content >>
  /\ UNCHANGED << lostWrites, served, peer, variant, body, hasKey, connected, username, exc, wire, flushed, log, calls >>
  /\ UNCHANGED << raw_analysis, wrapped_data, cur,
                  month, month_content, monthly_summaries, final_analysis >>

\* index.py lines 314-321: the body of the stream loop for the chunk `cur`:
\* one progress event per tool call, then the text delta
IChunk ==
  /\ variant = "index" /\ hpc = "next" /\ gpc = "chunk"
  /\ IF ti <= Len(cur.tool_calls)
     THEN /\ Yield(Progress(ToolMessage(tool_call_counts, cur.tool_calls[ti]), 1, 4), "chunk")
          /\ tool_call_counts' = ToolCounts(tool_call_counts, cur.tool_calls[ti])
          /\ ti' = ti + 1
          /\ UNCHANGED analysis_content
     ELSE IF cur.content # <<>>
     THEN /\ analysis_content' = Append(analysis_content, cur.content)
          /\ Yield(AnalysisChunk(cur.content), "stream")
          /\ UNCHANGED << tool_call_counts, ti >>
     ELSE /\ gpc' = "stream"
          /\ UNCHANGED << hpc, out, events, tool_call_counts, ti, analysis_content >>
  /\ UNCHANGED << lostWrites, served, peer, variant, body, hasKey, connected, username, exc, wire, flushed, log, calls >>
  /\ UNCHANGED << raw_analysis, wrapped_data, cur,
                  month, month_content, monthly_summaries, final_analysis >>

\* ICreate2 with the creation of the chat attempted again when it fails
ICreate2Retried ==
  /\ variant = "index" /\ hpc = "next" /\ gpc = "create2"
  /\ \/ /\ calls' = Append(calls, Call("create", TRUE))
        /\ gpc' = "parse_call"
     \/ /\ \A i \in 1..Len(calls) : calls[i].ok
        /\ calls' = Append(calls, [Call("create", FALSE) EXCEPT !.end = TRUE])
        /\ UNCHANGED gpc
  /\ UNCHANGED << hpc, out, events, log >>
  /\ UNCHANGED << lostWrites, served, peer, variant, body, hasKey, connected, username, exc, wire, flushed >>
  /\ UNCHANGED gvars

\* index.py lines 337-435: the chat of the format step and its prompt
ICreate2 ==
  /\ variant = "index" /\ hpc = "next" /\ gpc = "create2"
  /\ \/ /\ calls' = Append(calls, Call("create", TRUE))
        /\ gpc' = "parse_call"
        /\ UNCHANGED << hpc, out, events, log >>
     \/ \E e \in Failures :
          /\ calls' = Append(calls, [Call("create", FALSE) EXCEPT !.end = TRUE])
          /\ CaughtError(e)
  /\ UNCHANGED << lostWrites, served, peer, variant, body, hasKey, connected, username, exc, wire, flushed >>
  /\ UNCHANGED gvars

\* IParseCall with a progress event announcing the wait
IParseCallAnnounced ==
  /\ variant = "index" /\ hpc = "next" /\ gpc = "parse_call"
  /\ calls' = Append(calls, [op |-> "parse_call", ok |-> TRUE, end |-> FALSE,
                             emitted |-> Len(events)])
  /\ Yield(Progress(<<"Waiting for the report...">>, 2, 4), "parse")
  /\ UNCHANGED << lostWrites, served, peer, variant, body, hasKey, connected, username, exc, wire, flushed, log >>
  /\ UNCHANGED gvars

\* index.py line 439: format_chat.parse(WrappedResponse) is called; the
\* generator waits in the call, `emitted` events having been yielded so far
IParseCall ==
  /\ variant = "index" /\ hpc = "next" /\ gpc = "parse_call"
  /\ calls' = Append(calls, [op |-> "parse_call", ok |-> TRUE, end |-> FALSE,
                             emitted |-> Len(events)])
  /\ gpc' = "parse"
  /\ UNCHANGED << lostWrites, served, peer, variant, body, hasKey, connected, username, exc, out, wire,
                  flushed, events, log, hpc >>
  /\ UNCHANGED gvars

\* the reports format_chat.parse may return
ParsedReports == { ParsedReport(<<"ok">>), ParsedReport(<<"a year">>) }

\* the format prompt: the raw analysis between its two markers
FormatPrompt(user, raw) ==
  << "Based on the following content analysis of @", user, "'s X activity for ",
     current_year, "=== RAW ANALYSIS ===", raw, "=== END ANALYSIS ===" >>

\* IParse with the parse failure handed to the outer except clause
IParseSurfaced ==
  /\ variant = "index" /\ hpc = "next" /\ gpc = "parse"
  /\ \/ \E r \in ParsedReports :
          /\ calls' = Append(calls, [op |-> "parse", ok |-> TRUE, end |-> FALSE,
                                     prompt |-> FormatPrompt(username, raw_analysis),
                                     emitted |-> Len(events), result |-> r])
          /\ wrapped_data' = r
          /\ Yield(Progress(<<"Adding final touches...">>, 3, 4), "done_progress")
          /\ UNCHANGED log
     \/ \E e \in Failures :
          /\ calls' = Append(calls, [op |-> "parse", ok |-> FALSE, end |-> FALSE,
                                     prompt |-> FormatPrompt(username, raw_analysis),
                                     emitted |-> Len(events)])
          /\ CaughtError(e)
          /\ UNCHANGED wrapped_data
  /\ UNCHANGED << lostWrites, served, peer, variant, body, hasKey, connected, username, exc, wire, flushed >>
  /\ UNCHANGED << tool_call_counts, analysis_content, raw_analysis, cur, ti,
                  month, month_content, monthly_summaries, final_analysis >>

\* index.py lines 438-493: format_chat.parse(WrappedResponse); the fallback
\* report when it raises; the third progress event
IParse ==
  /\ variant = "index" /\ hpc = "next" /\ gpc = "parse"
  /\ \/ \E r \in ParsedReports :
          /\ calls' = Append(calls, [op |-> "parse", ok |-> TRUE, end |-> FALSE,
                                     prompt |-> FormatPrompt(username, raw_analysis),
                                     emitted |-> Len(events), result |-> r])
          /\ wrapped_data' = r
          /\ UNCHANGED log
     \/ /\ calls' = Append(calls, [op |-> "parse", ok |-> FALSE, end |-> FALSE,
                                   prompt |-> FormatPrompt(username, raw_analysis),
                                   emitted |-> Len(events)])
        /\ wrapped_data' = FallbackReport(username)
        /\ log' = Append(log, "structured output parsing failed")
  /\ Yield(Progress(<<"Adding final touches...">>, 3, 4), "done_progress")
  /\ UNCHANGED << lostWrites, served, peer, variant, body, hasKey, connected, username, exc, wire, flushed >>
  /\ UNCHANGED << tool_call_counts, analysis_content, raw_analysis, cur, ti,
                  month, month_content, monthly_summaries, final_analysis >>

\* IDoneProgress counting a fifth step
IDoneProgressOfFive ==
  /\ variant = "index" /\ hpc = "next" /\ gpc = "done_progress"
  /\ Yield(Progress(<<"Done!">>, 5, 5), "complete")
  /\ UNCHANGED << lostWrites, served, peer, variant, body, hasKey, connected, username, exc, wire, flushed, log, calls >>
  /\ UNCHANGED gvars

\* index.py line 496
IDoneProgress ==
  /\ variant = "index" /\ hpc = "next" /\ gpc = "done_progress"
  /\ Yield(Progress(<<"Done!">>, 4, 4), "complete")
  /\ UNCHANGED << lostWrites, served, peer, variant, body, hasKey, connected, username, exc, wire, flushed, log, calls >>
  /\ UNCHANGED gvars

\* IComplete with the report rebuilt from the fallback template
ICompleteRebuilt ==
  /\ variant = "index" /\ hpc = "next" /\ gpc = "complete"
  /\ Yield(Complete(FallbackReport(username)), "end")
  /\ UNCHANGED << lostWrites, served, peer, variant, body, hasKey, connected, username, exc, wire, flushed, log, calls >>
  /\ UNCHANGED gvars

\* index.py line 497
IComplete ==
  /\ variant = "index" /\ hpc = "next" /\ gpc = "complete"
  /\ Yield(Complete(wrapped_data), "end")
  /\ UNCHANGED << lostWrites, served, peer, variant, body, hasKey, connected, username, exc, wire, flushed, log, calls >>
  /\ UNCHANGED gvars

\* the generator returns (a return statement, or the end of the function):
\* the handler's for loop ends and do_POST returns
GReturn ==
  /\ hpc = "next" /\ gpc \in {"ret", "end"}
  /\ gpc' = "returned"
  /\ hpc' = "done"
  /\ UNCHANGED << lostWrites, served, peer, variant, body, hasKey, connected, username, exc, out, wire,
                  flushed, events, log, calls >>
  /\ UNCHANGED gvars

(***************************************************************************)
(* A second request in the same process (flask_app.run(threaded=True)):    *)
(* another thread runs generate_wrapped_streaming of index.py.  Of that    *)
(* thread only what touches the module-level tool_call_counts is kept.     *)
(***************************************************************************)
\* the tool calls the other request's stream carries, in order
PeerScript == <<x_user_search, x_user_search>>

\* another thread accepts a request and reaches client.chat.create
PeerArrive ==
  /\ variant = "index" /\ peer.pc = "absent"
  /\ peer' = [peer EXCEPT !.pc = "create"]
  /\ UNCHANGED << variant, body, hasKey, connected, hpc, gpc, username, exc, out, wire,
                  lostWrites, flushed, events, log, calls, served >>
  /\ UNCHANGED gvars

\* index.py line 211 in the other thread: tool_call_counts.clear()
PeerCreate ==
  /\ peer.pc = "create"
  /\ tool_call_counts' = ClearedCounts(tool_call_counts)
  /\ peer' = [peer EXCEPT !.pc = "stream"]
  /\ UNCHANGED << variant, body, hasKey, connected, hpc, gpc, username, exc, out, wire,
                  lostWrites, flushed, events, log, calls, served >>
  /\ UNCHANGED << analysis_content, raw_analysis, wrapped_data, cur, ti,
                  month, month_content, monthly_summaries, final_analysis >>

\* index.py line 316 in the other thread: get_tool_message for its next tool call
PeerToolCall ==
  /\ peer.pc = "stream" /\ peer.done < Len(PeerScript)
  /\ LET tool_name == PeerScript[peer.done + 1] IN
       /\ peer' = [peer EXCEPT !.done = @ + 1,
                               !.notices = Append(@, ToolMessage(tool_call_counts, tool_name))]
       /\ tool_call_counts' = ToolCounts(tool_call_counts, tool_name)
  /\ UNCHANGED << variant, body, hasKey, connected, hpc, gpc, username, exc, out, wire,
                  lostWrites, flushed, events, log, calls, served >>
  /\ UNCHANGED << analysis_content, raw_analysis, wrapped_data, cur, ti,
                  month, month_content, monthly_summaries, final_analysis >>

\* the other thread's stream ends
PeerReturn ==
  /\ peer.pc = "stream"
  /\ peer' = [peer EXCEPT !.pc = "done"]
  /\ UNCHANGED << variant, body, hasKey, connected, hpc, gpc, username, exc, out, wire,
                  lostWrites, flushed, events, log, calls, served >>
  /\ UNCHANGED gvars

(***************************************************************************)
(* The next request of the same process, after do_POST has returned or     *)
(* raised: a new handler and a new generator; the module-level             *)
(* tool_call_counts is what the earlier request left.                      *)
(***************************************************************************)
\* how the request ended
Outcome ==
  IF ~connected THEN "disconnect"
  ELSE IF events # <<>> /\ "type" \in DOMAIN events[Len(events)]
       THEN events[Len(events)].type
       ELSE "other"

\* the bodies of the next request: another username
NextBodies == { ObjectBody([username |-> <<"b">>]) }

NewRequest ==
  /\ hpc \in {"done", "crashed"}
  /\ served = <<>>
  /\ served' = Append(served, [outcome |-> Outcome,
                               invoked |-> DOMAIN tool_call_counts # {}])
  /\ body' \in NextBodies
  /\ connected' = TRUE
  /\ hpc' = "recv"
  /\ gpc' = "start"
  /\ username' = <<>>
  /\ exc' = None
  /\ out' = None
  /\ wire' = <<>>
  /\ lostWrites' = <<>>
  /\ flushed' = 0
  /\ events' = <<>>
  /\ log' = <<>>
  /\ analysis_content' = <<>>
  /\ raw_analysis' = <<>>
  /\ wrapped_data' = None
  /\ cur' = NoChunk
  /\ ti' = 1
  /\ month' = 1
  /\ month_content' = <<>>
  /\ monthly_summaries' = <<>>
  /\ final_analysis' = None
  /\ calls' = <<>>
  /\ UNCHANGED << variant, hasKey, tool_call_counts, peer >>

Next ==
  \/ HRecv \/ HRejectHead \/ HRejectBody \/ HAccept
  \/ HWrite \/ HFlush \/ HExceptHead \/ HExceptBody
  \/ IStart \/ ICreate \/ IStreamNext \/ IChunk \/ ICreate2 \/ IParseCall \/ IParse
  \/ IDoneProgress \/ IComplete
  \/ MStart \/ MMonth \/ MCreate \/ MStreamNext \/ MSample
  \/ MFinalCreate \/ MFinalStreamNext \/ MFinalSample
  \/ GReturn

Spec == Init /\ [][Next]_vars

\* index.py alone
HandlerNext ==
  \/ HRecv \/ HRejectHead \/ HRejectBody \/ HAccept
  \/ HWrite \/ HFlush \/ HExceptHead \/ HExceptBody

NextIndex ==
  \/ HandlerNext
  \/ IStart \/ ICreate \/ IStreamNext \/ IChunk \/ ICreate2 \/ IParseCall \/ IParse
  \/ IDoneProgress \/ IComplete
  \/ GReturn

InitIndex == Init /\ variant = "index"

SpecIndex == InitIndex /\ [][NextIndex]_vars

\* stream.py alone
NextMonthly ==
  \/ HandlerNext
  \/ MStart \/ MMonth \/ MCreate \/ MStreamNext \/ MSample
  \/ MFinalCreate \/ MFinalStreamNext \/ MFinalSample
  \/ GReturn

InitMonthly == Init /\ variant = "monthly"

SpecMonthly == InitMonthly /\ [][NextMonthly]_vars

\* index.py serving a request it accepts, with the credential set, in a
\* fresh process
ServingNext ==
  \/ HRecv \/ HAccept \/ HWrite \/ HFlush \/ HExceptHead
  \/ IStart \/ ICreate \/ IStreamNext \/ IChunk \/ ICreate2 \/ IParseCall \/ IParse
  \/ IDoneProgress \/ IComplete
  \/ GReturn

InitServing ==
  /\ InitIndex
  /\ hasKey
  /\ body = ObjectBody([username |-> <<"a">>])
  /\ tool_call_counts = [t \in {} |-> 0]

\* two requests of index.py served by two threads of one process
NextConcurrent == ServingNext \/ PeerArrive \/ PeerCreate \/ PeerToolCall \/ PeerReturn

InitConcurrent == InitServing

SpecConcurrent == InitConcurrent /\ [][NextConcurrent]_vars

\* two requests of index.py served one after the other by a fresh process
NextSequential == ServingNext \/ NewRequest

InitSequential == InitServing

SpecSequential == InitSequential /\ [][NextSequential]_vars

(***************************************************************************)
(* Properties                                                              *)
(***************************************************************************)
\* the 'type' of a record, "none" when it has no such field
TypeOf(ev) == IF "type" \in DOMAIN ev THEN ev.type ELSE "none"

\* sub occurs in s as a contiguous run
Contains(s, sub) ==
  \E i \in 0..(Len(s) - Len(sub)) : \A j \in 1..Len(sub) : s[i + j] = sub[j]

Terminal(ev) == TypeOf(ev) \in {"complete", "error"}

\* do_POST returned for an accepted request and every write reached the client
FinishedConnected == hpc = "done" /\ connected /\ username # <<>>

\* the remote calls that raised
FailedCalls == { i \in 1..Len(calls) : ~calls[i].ok }

\* C1: a run with a non-empty username that finishes without a disconnect
\* has emitted exactly one terminal event (complete or error), and it is the
\* last event
C1_OneTerminalEventLast ==
  FinishedConnected =>
    /\ events # <<>>
    /\ Terminal(events[Len(events)])
    /\ \A i \in 1..(Len(events) - 1) : ~Terminal(events[i])

\* ts is a prefix of a sequence of the form
\*   progress* analysis_chunk* progress* complete
\*   progress* analysis_chunk* error
PrefixOfStatedOrder(ts) ==
  LET n == Len(ts) IN
  \E a \in 0..n : \E b \in a..n :
    /\ \A i \in 1..a : ts[i] = "progress"
    /\ \A i \in (a + 1)..b : ts[i] = "analysis_chunk"
    /\ \A i \in (b + 1)..(n - 1) : ts[i] = "progress"
    /\ n > b => \/ ts[n] \in {"progress", "complete"}
                \/ ts[n] = "error" /\ n = b + 1

\* the records that carry a type, and their types
TypedEvents == SelectSeq(events, LAMBDA ev : "type" \in DOMAIN ev)
TypedEventTypes == [i \in 1..Len(TypedEvents) |-> TypedEvents[i].type]

\* C2 as stated: the event types follow progress* analysis_chunk* progress*
\* complete or progress* analysis_chunk* error, so no progress event comes
\* between two analysis_chunk events
C2_StatedOrder == PrefixOfStatedOrder(TypedEventTypes)

\* the place of an event of index.py in its run: a progress event of step 1
\* belongs to the stream, one of a later step to the part after it
Place(ev) ==
  CASE TypeOf(ev) = "progress" /\ ev.step <= 1 -> "notice"
    [] TypeOf(ev) = "progress" /\ ev.step > 1 -> "late"
    [] OTHER -> TypeOf(ev)

\* C2 (amended): in index.py the first event is a progress or an error; the
\* progress events of step 1 (tool notices) and the analysis_chunk events come
\* in arrival order, so a notice may stand between two chunks; every
\* analysis_chunk comes before the first progress of step 2 or more; complete
\* comes right after the progress of step 4; nothing follows complete or
\* error.  In stream.py the typed events keep the stated order.
C2_EventOrder ==
  IF variant = "index"
  THEN /\ events # <<>> => Place(events[1]) \in {"notice", "error"}
       /\ \A i \in 1..Len(events) : Place(events[i]) \in {"notice", "analysis_chunk", "late", "complete", "error"}
       /\ \A i \in 1..Len(events) : \A j \in (i + 1)..Len(events) :
            /\ ~Terminal(events[i])
            /\ Place(events[i]) = "late" => /\ Place(events[j]) \notin {"notice", "analysis_chunk"}
                                            /\ Place(events[j]) = "late" => events[j].step > events[i].step
       /\ \A i \in 1..Len(events) :
            Place(events[i]) = "complete" =>
              i > 1 /\ Place(events[i - 1]) = "late" /\ events[i - 1].step = 4
  ELSE PrefixOfStatedOrder(TypedEventTypes)

\* a finished run of index.py with a tool notice between two analysis_chunk events
C2_NoticeBetweenChunks ==
  /\ variant = "index" /\ FinishedConnected
  /\ TypeOf(events[Len(events)]) = "complete"
  /\ \E i \in 1..Len(events) : \E j \in (i + 1)..Len(events) : \E k \in (j + 1)..Len(events) :
       /\ TypeOf(events[i]) = "analysis_chunk"
       /\ TypeOf(events[j]) = "progress"
       /\ TypeOf(events[k]) = "analysis_chunk"

\* the message of an error record names the credential
NamesCredential(ev) == \E k \in 1..Len(ev.error) : ev.error[k] = "XAI_API_KEY"

\* C3: without the XAI_API_KEY credential the first and only event has type
\* error and a message containing XAI_API_KEY, and no remote call is made
C3_MissingKeyError ==
  ~hasKey =>
    /\ calls = <<>>
    /\ Len(events) <= 1
    /\ events # <<>> => TypeOf(events[1]) = "error" /\ NamesCredential(events[1])
    /\ hpc = "done" /\ username # <<>> => events # <<>>

\* C4: a failure of a remote call (create, a stream chunk, parse, sample)
\* never leaves the generator for the handler: the run has exactly one error
\* event, carrying the failure's message, and no complete event
C4_FailureBecomesErrorEvent ==
  \A i \in FailedCalls :
    /\ gpc # "raised"
    /\ ~("src" \in DOMAIN exc /\ exc.src = "generator")
    /\ Len(SelectSeq(events, LAMBDA ev : TypeOf(ev) = "error")) = 1
    /\ \A k \in 1..Len(events) :
         /\ TypeOf(events[k]) = "error" => events[k].error \in {<<e>> : e \in Failures}
         /\ TypeOf(events[k]) # "complete"

\* the stream of the analysis was read to its end
AnalysisStreamEnded ==
  \E k \in 1..Len(calls) :
    /\ calls[k].op = "stream"
    /\ variant = "monthly" => "prompt" \in DOMAIN calls[k]
    /\ \E j \in (k + 1)..Len(calls) : calls[j].op = "next" /\ calls[j].ok /\ calls[j].end

\* C5: when the collected analysis text is empty or only white space the run
\* ends with the error 'no analysis data was generated', there is no complete
\* event, and neither the structured parse nor the JSON recovery runs
C5_EmptyAnalysisIsError ==
  (AnalysisStreamEnded /\ StripIsEmpty(Join(analysis_content))) =>
    /\ events # <<>>
    /\ events[Len(events)] = Error(NoAnalysisMessage)
    /\ \A k \in 1..Len(events) : TypeOf(events[k]) # "complete"
    /\ \A k \in 1..Len(calls) : calls[k].op # "parse"
    /\ wrapped_data = None

\* the structured parse raised
ParseFailed == \E k \in 1..Len(calls) : calls[k].op = "parse" /\ ~calls[k].ok

\* C6: a failure of the structured parse is never surfaced as an error event:
\* the report is the fallback built from the username, and the run ends with
\* the complete event carrying it
C6_ParseFailureFallsBack ==
  ParseFailed =>
    /\ \A k \in 1..Len(events) : TypeOf(events[k]) # "error"
    /\ wrapped_data = FallbackReport(username)
    /\ gpc # "raised"
    /\ FinishedConnected => events[Len(events)] = Complete(FallbackReport(username))

\* a finished run whose structured parse raised
C6_FallbackCompleted ==
  /\ ParseFailed /\ FinishedConnected
  /\ events[Len(events)] = Complete(FallbackReport(username))

\* a value of the declared type, hence not null: a text or a list; a percentage
IsSequence(v) == Len(v) >= 0
IsPercentage(v) == v \in 0..100

\* the record r has exactly the fields S, each a text or a list
HasFields(r, S) == DOMAIN r = S /\ \A f \in S : IsSequence(r[f])

VibePercentages == {"positive_percentage", "neutral_percentage", "negative_percentage"}

\* the top-level fields that hold a record
RecordFields == {"personality", "vibe", "voice", "content_mix", "evolution"}

\* a report with every field the schema declares, at both levels, none null
WellFormedReport(r) ==
  /\ DOMAIN r = WrappedResponseFields
  /\ \A f \in WrappedResponseFields \ RecordFields : IsSequence(r[f])
  /\ HasFields(r.personality, PersonalityArchetypeFields)
  /\ DOMAIN r.vibe = VibeAnalysisFields
  /\ \A f \in VibePercentages : IsPercentage(r.vibe[f])
  /\ \A f \in VibeAnalysisFields \ VibePercentages : IsSequence(r.vibe[f])
  /\ HasFields(r.voice, VoiceAnalysisFields)
  /\ HasFields(r.content_mix, ContentMixFields)
  /\ HasFields(r.evolution, EvolutionArcFields)

\* C7: the report of every complete event has every declared top-level field,
\* none null, whether it was parsed or is the fallback; the fallback has
\* exactly the fields of WrappedResponse and every sub-field of its records
C7_ReportHasEveryField ==
  /\ \A k \in 1..Len(events) :
       TypeOf(events[k]) = "complete" => WellFormedReport(events[k].data)
  /\ ParseFailed => WellFormedReport(wrapped_data)
  /\ Cardinality(WrappedResponseFields) = 15

\* a complete event carrying the fallback report has been written and flushed
C7_FallbackReported ==
  /\ ParseFailed /\ hpc = "next" /\ gpc = "end"
  /\ TypeOf(events[Len(events)]) = "complete"
  /\ events[Len(events)].data = FallbackReport(username)

\* C8: once a write of the event stream has failed (the handler's loop has
\* closed the generator), the run makes no remote call, emits no event, and
\* the handler writes nothing more, not even an attempt that fails in its turn
C8_SilentAfterDisconnect ==
  [][gpc = "closed" => /\ calls' = calls
                   /\ events' = events
                   /\ wire' = wire
                   /\ lostWrites' = lostWrites]_vars

\* the text of the analysis_chunk events, concatenated
ChunkText ==
  LET chunks == SelectSeq(events, LAMBDA ev : TypeOf(ev) = "analysis_chunk")
  IN Join([k \in 1..Len(chunks) |-> chunks[k].content])

\* C9: the analysis_chunk contents, concatenated, are exactly the raw text
\* the next step uses: the text inside the format prompt (index.py), the text
\* handed to the JSON extraction (stream.py)
C9_ChunksAreTheRawText ==
  /\ \A k \in 1..Len(calls) :
       calls[k].op = "parse" => calls[k].prompt = FormatPrompt(username, ChunkText)
  /\ (variant = "monthly" /\ final_analysis # None) => raw_analysis = ChunkText

\* the tool calls of the chunks delivered so far, in arrival order
ToolCallsSeen ==
  LET chunkCalls == SelectSeq(calls, LAMBDA c : "chunk" \in DOMAIN c)
  IN Join([k \in 1..Len(chunkCalls) |-> chunkCalls[k].chunk.tool_calls])

\* the tool notices emitted so far: the progress events of step 1 after the first event
ToolNotices ==
  LET rest == SubSeq(events, 2, Len(events))
  IN SelectSeq(rest, LAMBDA ev : TypeOf(ev) = "progress" /\ ev.step = 1)

\* the number of invocations of the tool of position j before position j
EarlierInvocations(tools, j) == Cardinality({i \in 1..(j - 1) : tools[i] = tools[j]})

\* the table of a tool: its listed messages, or the single message made from its name
MessageTable(t) == IF t \in DOMAIN TOOL_MESSAGES THEN TOOL_MESSAGES[t] ELSE DefaultMessages(t)

FooBarTitle == <<"F","o","o"," ","B","a","r">>

\* C10: the k-th invocation of a tool (from 0, since the counters were last
\* cleared) whose table has N messages yields table[k mod N], whatever other
\* tools are invoked in between; the unlisted tool foo_bar yields a message
\* containing 'Foo Bar'
C10_ToolMessageRotation ==
  variant = "index" =>
    /\ Len(ToolNotices) <= Len(ToolCallsSeen)
    /\ \A j \in 1..Len(ToolNotices) :
         LET t == ToolCallsSeen[j]
             table == MessageTable(t)
             k == EarlierInvocations(ToolCallsSeen, j)
         IN /\ ToolNotices[j].message = table[(k % Len(table)) + 1]
            /\ t = foo_bar => Contains(ToolNotices[j].message[1], FooBarTitle)

\* x_user_search has gone round its table of two messages, with a notice of
\* foo_bar among its notices
C10_RotationWrapped ==
  /\ variant = "index"
  /\ Len(ToolNotices) = Len(ToolCallsSeen)
  /\ \E i \in 1..Len(ToolCallsSeen) : \E j \in (i + 1)..Len(ToolCallsSeen) :
     \E k \in (j + 1)..Len(ToolCallsSeen) :
       /\ ToolCallsSeen[i] = x_user_search
       /\ ToolCallsSeen[j] = foo_bar
       /\ ToolCallsSeen[k] = x_user_search
       /\ EarlierInvocations(ToolCallsSeen, k) >= Len(TOOL_MESSAGES[x_user_search])

\* the message the rotation owes to position j of the tool calls `tools`
RotatedMessage(tools, j) ==
  LET table == MessageTable(tools[j])
  IN table[(EarlierInvocations(tools, j) % Len(table)) + 1]

\* C11: when two requests run concurrently in one process, neither reads,
\* increments or resets the other's tool counters: in every interleaving the
\* k-th invocation of a tool by a request yields table[k mod N] for that request
C11_CountersRequestScoped ==
  /\ \A j \in 1..Len(ToolNotices) :
       j <= Len(ToolCallsSeen) /\ ToolNotices[j].message = RotatedMessage(ToolCallsSeen, j)
  /\ \A j \in 1..Len(peer.notices) : peer.notices[j] = RotatedMessage(PeerScript, j)

\* C12: of two requests served one after the other by one process, the
\* second gets table index 0 for its first invocation of every tool, whatever
\* the first request invoked and however it ended
C12_SecondRequestStartsAtZero ==
  served # <<>> =>
    \A j \in 1..Len(ToolNotices) :
      /\ j <= Len(ToolCallsSeen)
      /\ EarlierInvocations(ToolCallsSeen, j) = 0 =>
           ToolNotices[j].message = MessageTable(ToolCallsSeen[j])[1]

\* the second request has invoked a tool after a first request that invoked
\* tools and lost its client
C12_SecondAfterInvocations ==
  /\ served # <<>>
  /\ served[1].invoked /\ served[1].outcome = "disconnect"
  /\ username = <<"b">>
  /\ ToolNotices # <<>>

\* the request has no username: an empty body, no 'username' field, or a
\* username made of '@' characters only
MissingUsername ==
  \/ body.raw = "empty"
  \/ /\ body.raw = "object"
     /\ "username" \in DOMAIN body.data => \A k \in 1..Len(body.data.username) : body.data.username[k] = "@"

\* C13: a POST with an empty or missing username (also one that is empty
\* once the '@' are removed, and an empty body) is answered with a plain 400
\* response carrying a JSON error body; no event stream is started and the
\* generator is never invoked
C13_MissingUsernameRejected ==
  MissingUsername =>
    /\ gpc = "start" /\ events = <<>> /\ calls = <<>>
    /\ connected => hpc \in {"recv", "reject_head", "reject_body", "done"}
    /\ \A k \in 1..Len(wire) :
         wire[k] \in { ResponseHead(400, "application/json"),
                       Data(ErrorBody("Username is required")) }
    /\ hpc = "done" /\ connected =>
         wire = << ResponseHead(400, "application/json"),
                   Data(ErrorBody("Username is required")) >>

\* the format_chat.parse calls made so far
ParseCalls == SelectSeq(calls, LAMBDA c : c.op = "parse")

\* the scenario of the end-to-end example: the stream delivered the two text
\* chunks 'foo' and 'bar' without tool calls, parse returned a report, and the
\* response was written to a connected client
FooBarScenario ==
  /\ variant = "index" /\ FinishedConnected
  /\ Len(DeliveredChunks) = 2
  /\ DeliveredChunks[1].chunk = [tool_calls |-> <<>>, content |-> <<"f", "o", "o">>]
  /\ DeliveredChunks[2].chunk = [tool_calls |-> <<>>, content |-> <<"b", "a", "r">>]
  /\ Len(ParseCalls) = 1 /\ ParseCalls[1].ok

\* C14 (as stated): in the foo/bar scenario the client observes exactly five
\* events: progress, analysis_chunk('foo'), analysis_chunk('bar'), progress,
\* complete, and the data of complete is the parsed object R
C14_FiveEvents ==
  FooBarScenario =>
    /\ TypedEventTypes = << "progress", "analysis_chunk", "analysis_chunk", "progress", "complete" >>
    /\ events[2].content = <<"f", "o", "o">> /\ events[3].content = <<"b", "a", "r">>
    /\ events[5].data = ParseCalls[1].result

\* C14 (as the program behaves): in the foo/bar scenario the client observes
\* one progress event, the two analysis chunks, then three progress events
\* (steps 2, 3 and 4 of 4) and complete, whose data is the parsed object R
\* unchanged
C14_FooBarEvents ==
  FooBarScenario =>
    events = << Progress(<<"Firing up Grok for @", username, "...">>, 1, 4),
                AnalysisChunk(<<"f", "o", "o">>),
                AnalysisChunk(<<"b", "a", "r">>),
                Progress(<<"Generating your wrapped...">>, 2, 4),
                Progress(<<"Adding final touches...">>, 3, 4),
                Progress(<<"Done!">>, 4, 4),
                Complete(ParseCalls[1].result) >>

C14_FooBarCompleted ==
  /\ FooBarScenario
  /\ events[Len(events)] = Complete(ParsedReport(<<"ok">>))

\* the handle a request names: the characters of its username other than '@'
Handle == SelectSeq(GetUsername(body.data), LAMBDA ch : ch # "@")

\* C15: the generator is invoked with the username without its '@', so a
\* request for '@a' and a request for 'a' give the same username argument,
\* the same allowed-handle restriction, the same prompts and the same first
\* progress event; everything later is computed from that argument and the
\* remote behaviour
C15_UsernameNormalized ==
  body.raw = "object" /\ hpc # "recv" =>
    /\ username = Handle
    /\ \A k \in 1..Len(calls) :
         /\ "allowed_x_handles" \in DOMAIN calls[k] => calls[k].allowed_x_handles = <<Handle>>
         /\ "prompt" \in DOMAIN calls[k] =>
              calls[k].prompt = IF calls[k].op = "parse"
                                THEN FormatPrompt(Handle, raw_analysis)
                                ELSE AnalysisPrompt(Handle, monthly_summaries)
    /\ events # <<>> /\ hasKey =>
         events[1] = IF variant = "index"
                     THEN Progress(<<"Firing up Grok for @", Handle, "...">>, 1, 4)
                     ELSE Progress(<<"Starting analysis for @", Handle, "...">>, 0, 13)

C15_AtHandleCompleted ==
  /\ body.raw = "object" /\ GetUsername(body.data) = <<"@", "a">>
  /\ variant = "index" /\ FinishedConnected
  /\ \E k \in 1..Len(calls) : "prompt" \in DOMAIN calls[k]
  /\ events[Len(events)].type = "complete"

\* the number of occurrences of the character c in s
Occurrences(s, c) == Cardinality({ i \in 1..Len(s) : s[i] = c })

\* the final analysis has been sampled and its text searched
Recovered == variant = "monthly" /\ final_analysis # None

\* the searched text holds the single object {"a":1}, whatever surrounds it
SingleObjectText ==
  /\ Occurrences(raw_analysis, "{") = 1 /\ Occurrences(raw_analysis, "}") = 1
  /\ FirstIndex(raw_analysis, "{") < LastIndex(raw_analysis, "}")
  /\ SubSeq(raw_analysis, FirstIndex(raw_analysis, "{"), LastIndex(raw_analysis, "}")) = JsonObjectText

\* C16: when the searched text holds a single well-formed JSON object with
\* prose around it, the report is that object (the span from the first "{" to
\* the last "}"), with the monthly summaries and the sampled citations merged
\* in, and the complete event carries it
C16_SingleObjectRecovered ==
  Recovered /\ SingleObjectText =>
    LET report == << << <<"a">>, 1 >>,
                     << KeyMonthlySummaries, monthly_summaries >>,
                     << KeyCitations, final_analysis.citations >> >>
    IN /\ wrapped_data = report
       /\ events[Len(events)] = Complete(report)

C16_ObjectInProseCompleted ==
  /\ Recovered /\ raw_analysis = ProseJsonText
  /\ FinishedConnected
  /\ final_analysis.citations # <<>>
  /\ events[Len(events)].type = "complete"

\* the searched text has no "{" followed, at any distance, by a "}"
NoSpan ==
  \/ FirstIndex(raw_analysis, "{") = 0
  \/ LastIndex(raw_analysis, "}") < FirstIndex(raw_analysis, "{")

\* the span from the first "{" to the last "}" is not a JSON document
UnparseableSpan ==
  /\ ~NoSpan
  /\ ~JsonLoads(SubSeq(raw_analysis, FirstIndex(raw_analysis, "{"),
                       LastIndex(raw_analysis, "}"))).ok

\* C17: when the searched text has no "{"..."}" span, or its span is not
\* parseable JSON, nothing is raised and the complete event carries the default
\* object: the text under 'analysis', the monthly summaries and the citations
C17_UnparseableFallsBack ==
  Recovered /\ (NoSpan \/ UnparseableSpan) =>
    LET report == << << KeyAnalysis, raw_analysis >>,
                     << KeyMonthlySummaries, monthly_summaries >>,
                     << KeyCitations, final_analysis.citations >> >>
    IN /\ gpc # "raised"
       /\ wrapped_data = report
       /\ events[Len(events)] = Complete(report)

C17_TwoObjectsCompleted ==
  /\ Recovered /\ UnparseableSpan
  /\ raw_analysis = JsonObjectText \o JsonObjectText
  /\ FinishedConnected
  /\ events[Len(events)].type = "complete"

\* the fields each event shape has to carry
ShapeFields(type) ==
  CASE type = "progress" -> {"type", "message", "step", "total"}
    [] type = "analysis_chunk" -> {"type", "content"}
    [] type = "complete" -> {"type", "data"}
    [] type = "error" -> {"type", "error"}
    [] OTHER -> {}

\* C18: every record yielded to the stream has a 'type' field, one of
\* progress, analysis_chunk, complete and error, and the fields of that shape;
\* no record without a type is emitted, the missing-credential path included
C18_EveryRecordTyped ==
  \A k \in 1..Len(events) :
    /\ "type" \in DOMAIN events[k]
    /\ events[k].type \in {"progress", "analysis_chunk", "complete", "error"}
    /\ ShapeFields(events[k].type) \subseteq DOMAIN events[k]

\* the 'step' values of the progress events, in emission order
ProgressSteps ==
  LET progress == SelectSeq(TypedEvents, LAMBDA ev : ev.type = "progress")
  IN [k \in 1..Len(progress) |-> progress[k].step]

\* C19: within a run the step of a progress event is never smaller than the
\* step of a progress event emitted before it, tool notices included
C19_StepsNonDecreasing ==
  LET steps == ProgressSteps
  IN \A i \in 1..(Len(steps) - 1) : steps[i] <= steps[i + 1]

C19_NoticesThenLaterSteps ==
  /\ variant = "index" /\ FinishedConnected
  /\ ToolNotices # <<>>
  /\ LET steps == ProgressSteps
     IN Len(steps) >= 5 /\ steps[1] = 1 /\ steps[Len(steps)] = 4

IsPrefix(a, b) == Len(a) <= Len(b) /\ SubSeq(b, 1, Len(a)) = a

\* the types of the events of the stream loop of index.py: the tool notices
\* and the analysis chunks, in emission order
StreamKinds ==
  LET rest == SubSeq(events, 2, Len(events))
      loop == SelectSeq(rest, LAMBDA ev : Place(ev) \in {"notice", "analysis_chunk"})
  IN [k \in 1..Len(loop) |-> loop[k].type]

\* the contents of the analysis_chunk events, in emission order
StreamContents ==
  LET chunks == SelectSeq(events, LAMBDA ev : TypeOf(ev) = "analysis_chunk")
  IN [k \in 1..Len(chunks) |-> chunks[k].content]

\* the texts of the delivered chunks that have one, in arrival order
DeliveredTexts ==
  LET texts == SelectSeq(DeliveredChunks, LAMBDA c : c.chunk.content # <<>>)
  IN [k \in 1..Len(texts) |-> texts[k].chunk.content]

\* the event types a chunk gives rise to when it yields `notices` progress events
ChunkKinds(c, notices) ==
  [k \in 1..notices |-> "progress"]
    \o (IF c.content # <<>> THEN <<"analysis_chunk">> ELSE <<>>)

\* one progress event for a chunk that carries tool calls / one for each tool call
OneNotice(c) == ChunkKinds(c, IF c.tool_calls # <<>> THEN 1 ELSE 0)
NoticePerCall(c) == ChunkKinds(c, Len(c.tool_calls))

\* the event types of the first n delivered chunks
KindsOfChunks(n, Kinds(_)) == Join([k \in 1..n |-> Kinds(DeliveredChunks[k].chunk)])

\* the generator is past the body of the stream loop for the latest chunk
PastLatestChunk ==
  gpc \in {"stream", "create2", "parse_call", "parse", "done_progress", "complete", "end", "ret", "returned"}

\* the events of the stream loop are those of the delivered chunks, chunk by
\* chunk in arrival order: all those of the earlier chunks were emitted before
\* the latest chunk was consumed, and all of the latest once its turn is over
StreamFollowsChunks(Kinds(_)) ==
  variant = "index" =>
    /\ IsPrefix(StreamKinds, KindsOfChunks(Len(DeliveredChunks), Kinds))
    /\ IsPrefix(StreamContents, DeliveredTexts)
    /\ DeliveredChunks # <<>> =>
         IsPrefix(KindsOfChunks(Len(DeliveredChunks) - 1, Kinds), StreamKinds)
    /\ PastLatestChunk => StreamKinds = KindsOfChunks(Len(DeliveredChunks), Kinds)

\* C20 (as stated): each chunk gives zero or one progress event and zero or
\* one analysis_chunk event, emitted before the next chunk is consumed and in
\* arrival order; a chunk never gives more than one progress event
C20_OneNoticePerChunk == StreamFollowsChunks(OneNotice)

\* C20 (as the program behaves): each chunk gives one progress event for each
\* tool call it carries, in order, then zero or one analysis_chunk event, all
\* emitted before the next chunk is consumed and in arrival order
C20_NoticePerToolCall == StreamFollowsChunks(NoticePerCall)

C20_TwoNoticesOneChunk ==
  /\ variant = "index" /\ FinishedConnected
  /\ Len(DeliveredChunks) = 2
  /\ Len(DeliveredChunks[1].chunk.tool_calls) = 2
  /\ DeliveredChunks[1].chunk.content # <<>>
  /\ StreamKinds = << "progress", "progress", "analysis_chunk" >>
                     \o OneNotice(DeliveredChunks[2].chunk)

\* C21: every text delta a stream delivers is forwarded as an analysis_chunk
\* event before the next chunk of the stream is consumed: the forwarded
\* contents are the delivered texts in arrival order, and at any moment at
\* most the latest delivered text is still to be forwarded; this holds for
\* every stream, the per-month streams of stream.py included
C21_DeltasForwarded ==
  /\ IsPrefix(StreamContents, DeliveredTexts)
  /\ Len(StreamContents) >= Len(DeliveredTexts) - 1

\* the calls of format_chat.parse, and their returns
ParseDispatches == SelectSeq(calls, LAMBDA c : c.op = "parse_call")

\* the positions of the analysis_chunk events, and of the progress events
ChunkPositions == { i \in 1..Len(events) : TypeOf(events[i]) = "analysis_chunk" }
ProgressPositions == { i \in 1..Len(events) : TypeOf(events[i]) = "progress" }

\* the position of the last event of the stream loop (a tool notice or an
\* analysis chunk), the first progress event when the loop emitted none
LastStreamPosition == 1 + Len(StreamKinds)

\* nothing is emitted while format_chat.parse is awaited, and no
\* analysis_chunk follows a progress event of step 2 or more
SilentParse ==
  /\ gpc = "parse" =>
       /\ ParseDispatches # <<>>
       /\ Len(events) = ParseDispatches[Len(ParseDispatches)].emitted
       /\ hpc = "next" /\ out = None
  /\ \A k \in 1..Len(ParseCalls) :
       k <= Len(ParseDispatches) /\ ParseCalls[k].emitted = ParseDispatches[k].emitted
  /\ \A i \in ProgressPositions :
       events[i].step >= 2 => \A j \in ChunkPositions : j < i

\* C22 (as stated): the parse phase is silent, no analysis_chunk is emitted
\* after the streaming phase, and at most one progress event is emitted between
\* the last analysis_chunk and the return of parse
C22_OneProgressAfterLastChunk ==
  variant = "index" =>
    /\ SilentParse
    /\ \A k \in 1..Len(ParseCalls) :
         Cardinality({ i \in ProgressPositions :
                         /\ \A j \in ChunkPositions : j < i
                         /\ i <= ParseCalls[k].emitted }) <= 1

\* C22 (as the program behaves): the parse phase is silent, no analysis_chunk
\* is emitted after the streaming phase, and exactly one progress event is
\* emitted between the end of the streaming phase (its last tool notice or
\* analysis chunk) and the return of parse
C22_SilentParsePhase ==
  variant = "index" =>
    /\ SilentParse
    /\ \A k \in 1..Len(ParseCalls) :
         /\ ParseCalls[k].emitted = LastStreamPosition + 1
         /\ events[ParseCalls[k].emitted] = Progress(<<"Generating your wrapped...">>, 2, 4)

C22_NoticesAfterLastChunk ==
  /\ variant = "index" /\ FinishedConnected
  /\ ParseCalls # <<>>
  /\ \E i \in ProgressPositions :
       /\ events[i].step = 1
       /\ ChunkPositions # {} /\ \A j \in ChunkPositions : j < i
  /\ events[Len(events)].type = "complete"

\* the calls of one kind made so far, by position in `calls`
CallsOf(op) == { k \in 1..Len(calls) : calls[k].op = op }

\* the text delivered by the chunks that came before position k of `calls`
TextBefore(k) ==
  LET earlier == SelectSeq(SubSeq(calls, 1, k - 1), LAMBDA c : "chunk" \in DOMAIN c)
  IN Join([i \in 1..Len(earlier) |-> earlier[i].chunk.content])

\* C23: in a run of index.py no remote call is made again: the analysis
\* stream is opened at most once and parse is called at most once; parse is
\* called only after the stream has ended with a text that is not blank; and
\* no remote call follows a remote call that failed
C23_NoRetry ==
  variant = "index" =>
    /\ Cardinality(CallsOf("stream")) <= 1
    /\ Cardinality(CallsOf("parse_call")) <= 1
    /\ Cardinality(CallsOf("parse")) <= 1
    /\ \A k \in CallsOf("parse_call") :
         /\ \E j \in 1..(k - 1) : calls[j].op = "next" /\ calls[j].ok /\ calls[j].end
         /\ ~StripIsEmpty(TextBefore(k))
    /\ \A k \in CallsOf("parse") : \E j \in 1..(k - 1) : calls[j].op = "parse_call"
    /\ \A i \in FailedCalls : i = Len(calls)

C23_FailedAfterStream ==
  /\ variant = "index" /\ FinishedConnected
  /\ DeliveredChunks # <<>>
  /\ \E i \in FailedCalls : calls[i].op = "create"
  /\ events[Len(events)].type = "error"

\* every event yielded so far is on the wire, after the response head, as one
\* record 'data: <json>' followed by a blank line, and the last write has
\* been flushed
AllWrittenAndFlushed ==
  /\ connected
  /\ Len(wire) = 1 + Len(events)
  /\ events # <<>> => flushed = Len(wire)
  /\ \A i \in 1..Len(events) : wire[i + 1] = Data(Sse(events[i]))

\* C24: the handler loop writes each event as one SSE record and flushes it
\* before the generator is resumed: whenever the generator makes a remote call
\* or yields an event, every event yielded before has been written and flushed
C24_FlushedBeforeResume ==
  [][ (Len(events') > Len(events) \/ Len(calls') > Len(calls)) => AllWrittenAndFlushed ]_vars

C24_EventsWrittenAndFlushed ==
  /\ FinishedConnected
  /\ Len(events) >= 3
  /\ AllWrittenAndFlushed

\* generate_wrapped_streaming has been called with `username`
GeneratorInvoked == hpc \in {"next", "write", "flush"} \/ gpc # "start"

\* C25: every username generate_wrapped_streaming is invoked with is
\* non-empty and holds no '@' at all, whatever username the body names
C25_UsernameSanitized ==
  GeneratorInvoked =>
    /\ username # <<>>
    /\ \A k \in 1..Len(username) : username[k] # "@"

C25_InnerAtRemoved ==
  /\ body.raw = "object" /\ GetUsername(body.data) = <<"a", "@", "b">>
  /\ GeneratorInvoked /\ events # <<>>
  /\ username = <<"a", "b">>

\* the status lines and header blocks written on the connection
ResponseHeads == { k \in 1..Len(wire) : wire[k].kind = "head" }

\* C26: the handler starts the response once: after the head of the 200
\* text/event-stream response no second status line or header block is
\* written on the connection, whatever fails afterwards
C26_OneResponseHead ==
  /\ Cardinality(ResponseHeads) <= 1
  /\ \A k \in ResponseHeads : k = 1

\* the progress events emitted so far, in emission order
ProgressEvents == SelectSeq(TypedEvents, LAMBDA ev : ev.type = "progress")

\* the number of steps of a run: 4 in index.py, 13 in stream.py
TotalSteps == IF variant = "index" THEN 4 ELSE 13

\* C27: in every progress event 0 <= step <= total, the total is the same in
\* all progress events of the run (4 in index.py, 13 in stream.py), and at
\* most one progress event has step = total
C27_StepWithinTotal ==
  LET progress == ProgressEvents
  IN /\ \A k \in 1..Len(progress) :
          /\ 0 <= progress[k].step /\ progress[k].step <= progress[k].total
          /\ progress[k].total = TotalSteps
     /\ Cardinality({ k \in 1..Len(progress) : progress[k].step = progress[k].total }) <= 1

C27_LastStepReached ==
  /\ FinishedConnected
  /\ \E k \in 1..Len(ProgressEvents) : ProgressEvents[k].step = TotalSteps
  /\ Len(ProgressEvents) >= 4

\* the positions in `calls` of the monthly streams, and of the stream of the
\* final analysis (the one opened with the analysis prompt)
MonthStreams == { k \in 1..Len(calls) : calls[k].op = "stream" /\ "prompt" \notin DOMAIN calls[k] }
FinalStreams == { k \in 1..Len(calls) : calls[k].op = "stream" /\ "prompt" \in DOMAIN calls[k] }

\* the sample() calls that returned, by position
SamplesReturned == { k \in 1..Len(calls) : calls[k].op = "sample" /\ calls[k].ok }

\* C28: a run of stream.py analyses the months in calendar order, one at a
\* time: the stream of a month is opened only after the progress event of that
\* month and after the sample() of the month before has returned; the final
\* analysis is opened only after the twelve summaries were collected and the
\* progress event of step 13 was emitted, and its prompt holds the twelve
\* summaries
C28_MonthsInOrder ==
  variant = "monthly" =>
    LET steps == ProgressSteps
        started == Cardinality(MonthStreams)
    IN /\ \A k \in 1..Len(monthly_summaries) : monthly_summaries[k].month = k
       /\ Len(monthly_summaries) <= 12
       /\ started \in { Len(monthly_summaries), Len(monthly_summaries) + 1 }
       /\ \A k \in 1..Len(steps) : steps[k] = IF k <= 13 THEN k - 1 ELSE 13
       /\ started > 0 => Len(steps) > started
       /\ \A k \in MonthStreams :
            /\ calls[k - 1].op = "create"
            /\ k > 2 => (k - 2) \in SamplesReturned
            /\ Cardinality({ j \in SamplesReturned : j < k })
                 = Cardinality({ j \in MonthStreams : j < k })
       /\ \A k \in FinalStreams :
            /\ started = 12 /\ Len(monthly_summaries) = 12
            /\ Cardinality({ j \in SamplesReturned : j < k }) = 12
            /\ \A j \in MonthStreams : j < k
            /\ Len(steps) = 14
            /\ calls[k].prompt = AnalysisPrompt(username, monthly_summaries)
            /\ Len(calls[k].prompt[6]) = 12

C28_FinalAnalysisReached ==
  /\ variant = "monthly" /\ FinishedConnected
  /\ FinalStreams # {}
  /\ Len(monthly_summaries) = 12
  /\ events[Len(events)].type = "complete"

====
